---- MODULE Spec2Model ----
(***************************************************************************)
(* Organization / device / key-custody core of wosh-server                 *)
(* (organization.service.ts).  The relational store is modelled as three   *)
(* committed tables plus, per request, the uncommitted effects of the      *)
(* transaction the request runs in.  Every awaited store statement of a    *)
(* handler is one atomic step; requests interleave between statements.     *)
(***************************************************************************)
EXTENDS Integers, Sequences, FiniteSets, TLC

\* ---------------------------------------------------------------- bounds
MaxOrgs == 2        \* organization ids ever generated
MaxClock == 1       \* latest instant the clock reaches
MaxCalls == 2       \* service calls ever started

Procs == {"p1", "p2"}          \* concurrent requests
Users == {"u1", "u2"}          \* authenticated caller ids
NoUser == "none"               \* a request without a session
Names == {"acme", "zeta"}      \* organization names

OrgIds == 1..MaxOrgs
\* ids a caller can name: the ids generated so far and one that names no row
KnownIds(next) == 1..(IF next < MaxOrgs THEN next ELSE MaxOrgs)
NoId == 0                      \* undefined / no row
NoClient == 0                  \* let client / let db before any assignment

Null == << >>
Some(x) == << x >>

\* ------------------------------------------------------------ error table
\* ALL_ERRORS: the entries {code, message, statusCode} of the codes the core
\* and its controllers use
ErrorEntry(code, message, statusCode) ==
  [code |-> code, message |-> message, statusCode |-> statusCode]

ALL_ERRORS ==
  [ c \in {"ORG_NOT_FOUND", "DEVICE_NOT_FOUND", "INTERNAL_ERROR",
           "UNKNOWN_ERROR", "FORBIDDEN", "VALIDATION_ERROR", "TOKEN_MISSING"} |->
      CASE c = "ORG_NOT_FOUND" -> ErrorEntry(c, "Organization not found", 404)
        [] c = "TOKEN_MISSING" -> ErrorEntry(c, "Authentication token is required", 401)
        [] c = "DEVICE_NOT_FOUND" -> ErrorEntry(c, "Device registration not found", 404)
        [] c = "INTERNAL_ERROR" -> ErrorEntry(c, "Internal server error", 500)
        [] c = "UNKNOWN_ERROR" -> ErrorEntry(c, "Unknown error occurred", 500)
        [] c = "FORBIDDEN" -> ErrorEntry(c, "Forbidden", 403)
        [] c = "VALIDATION_ERROR" -> ErrorEntry(c, "Validation failed", 400) ]

\* the entry with that code, and a literal UNKNOWN_ERROR when there is none
getErrorByCodeUntabled(code) == ErrorEntry(code, "", 500)
getErrorByCode(code) ==
  IF code \in DOMAIN ALL_ERRORS
    THEN ALL_ERRORS[code]
    ELSE ErrorEntry("UNKNOWN_ERROR", "Unknown error occurred", 500)

\* the uniform envelope {data, error}; kind separates it from a raw boolean
\* (hasAccess) and from an exception that left the operation
Ok(d) == [kind |-> "envelope", data |-> Some(d), error |-> Null]
Err(code) == [kind |-> "envelope", data |-> Null, error |-> Some(getErrorByCode(code))]
Bool(b) == [kind |-> "bool", data |-> Some(b), error |-> Null]
Thrown == [kind |-> "thrown", data |-> Null, error |-> Null]
NoResult == [kind |-> "none", data |-> Null, error |-> Null]

ErrCode(r) == IF r.error = Null THEN "null" ELSE r.error[1].code

\* ------------------------------------------------------------------ state
VARIABLES
  organizations,        \* committed rows: id -> row
  deviceRegistrations,  \* committed rows: id -> row
  recoveryBackups,      \* committed rows: id -> row
  projects,             \* committed rows: id -> row
  nextId,               \* generated-uuid counters per table
  clock,                \* wall clock (new Date() / now())
  pc,                   \* per request: position in its handler
  op,                   \* per request: the operation running
  args,                 \* per request: the operation's arguments
  loc,                  \* per request: the handler's local variables
  tx,                   \* per request: its open transaction
  result,               \* per request: what the operation returned
  calls,                \* calls started so far
  client,               \* db.ts: the module-level postgres client
  db,                   \* db.ts: the module-level drizzle handle
  clients               \* postgres clients constructed so far

tables == << organizations, deviceRegistrations, recoveryBackups, projects >>
pool == << client, db, clients >>
vars == << organizations, deviceRegistrations, recoveryBackups, projects, nextId, clock,
           pc, op, args, loc, tx, result, calls, client, db, clients >>

NoArgs == [id |-> NoId, ownerId |-> "u1", deviceId |-> NoId, name |-> "acme",
           session |-> NoUser]
NoLoc == [org |-> NoId, device |-> NoId, now |-> 0, row |-> << >>,
          access |-> FALSE, logged |-> FALSE]
EmptyRows == [i \in {} |-> 0]
NoTx == [status |-> "none",
         insOrgs |-> EmptyRows, insDevs |-> EmptyRows, insBaks |-> EmptyRows,
         delOrgs |-> {}, delDevs |-> {}, delBaks |-> {}, delPrjs |-> {}]

\* ------------------------------------------------------------------- rows
\* the dto's key blobs are opaque client-produced values, different for every
\* create call; each is named after the row that stores it
\* updatedAt: defaultNow() at the insert, $onUpdate(() => new Date()) at every
\* update statement that does not set it
NewOrgRow(id, a, now) ==
  [ name |-> a.name, ownerId |-> a.ownerId,
    privateKeyEncrypted |-> << "pke", id >>,
    keyDerivationSalt |-> << "salt", id >>,
    encryptionIv |-> << "iv", id >>,
    updatedAt |-> now ]

\* values({...deviceInfo, organizationId: org.id, userId: dto.ownerId, isActive: true})
NewDeviceRowUnbound(orgId, a, now) ==
  [ organizationId |-> NoId, userId |-> a.ownerId, isActive |-> TRUE,
    lastUsed |-> now, updatedAt |-> now ]
NewDeviceRow(orgId, a, now) ==
  [ organizationId |-> orgId, userId |-> a.ownerId, isActive |-> TRUE,
    lastUsed |-> now, updatedAt |-> now ]

NewBackupRow(orgId, a) ==
  [ organizationId |-> orgId, userId |-> a.ownerId,
    backupType |-> "recovery_code", encryptedBackup |-> "pending", isUsed |-> FALSE ]

\* The service is constructed with the handle of an initialized pool, over an
\* existing database: the one that a
\* committed create({ownerId: "u1", name: "acme"}) at instant 0 leaves behind.
SeedDto == [NoArgs EXCEPT !.ownerId = "u1", !.name = "acme"]

Init ==
  /\ organizations = [i \in {1} |-> NewOrgRow(1, SeedDto, 0)]
  /\ deviceRegistrations = [i \in {1} |-> NewDeviceRow(1, SeedDto, 0)]
  /\ recoveryBackups = [i \in {1} |-> NewBackupRow(1, SeedDto)]
  /\ nextId = [org |-> 2, dev |-> 2, bak |-> 2, prj |-> 1]
  /\ projects = EmptyRows
  /\ clock = 0
  /\ pc = [p \in Procs |-> "idle"]
  /\ op = [p \in Procs |-> "none"]
  /\ args = [p \in Procs |-> NoArgs]
  /\ loc = [p \in Procs |-> NoLoc]
  /\ tx = [p \in Procs |-> NoTx]
  /\ result = [p \in Procs |-> NoResult]
  /\ calls = 0
  /\ client = 1
  /\ db = 1
  /\ clients = {1}

\* ------------------------------------------------------- store primitives
Extend(f, k, v) == [x \in DOMAIN f \cup {k} |-> IF x = k THEN v ELSE f[x]]
Without(f, ks) == [x \in DOMAIN f \ ks |-> f[x]]
Merge(f, g) == [x \in DOMAIN f \cup DOMAIN g |-> IF x \in DOMAIN g THEN g[x] ELSE f[x]]

\* rows another open transaction has deleted but not yet committed hold a row
\* lock: a statement of p that would write them waits
LockedOrgs(p) == UNION { tx[q].delOrgs : q \in Procs \ {p} }
LockedDevs(p) == UNION { tx[q].delDevs : q \in Procs \ {p} }
LockedBaks(p) == UNION { tx[q].delBaks : q \in Procs \ {p} }
LockedPrjs(p) == UNION { tx[q].delPrjs : q \in Procs \ {p} }

\* and(eq(organizations.id, id), eq(organizations.ownerId, ownerId))
OrgMatchesNoOwner(orgs, id, ownerId) == id \in DOMAIN orgs
OrgMatches(orgs, id, ownerId) ==
  /\ id \in DOMAIN orgs
  /\ orgs[id].ownerId = ownerId

\* and(eq(device.id, deviceId), eq(device.organizationId, organizationId),
\*     eq(device.userId, ownerId))
DeviceMatchesIdOnly(devs, deviceId, organizationId, ownerId) == deviceId \in DOMAIN devs
DeviceMatchesActiveOnly(devs, deviceId, organizationId, ownerId) ==
  /\ deviceId \in DOMAIN devs
  /\ devs[deviceId].organizationId = organizationId
  /\ devs[deviceId].userId = ownerId
  /\ devs[deviceId].isActive
DeviceMatches(devs, deviceId, organizationId, ownerId) ==
  /\ deviceId \in DOMAIN devs
  /\ devs[deviceId].organizationId = organizationId
  /\ devs[deviceId].userId = ownerId

DevicesOfOrgActiveOnly(devs, organizationId) ==
  { d \in DOMAIN devs : devs[d].organizationId = organizationId /\ devs[d].isActive }
DevicesOfOrg(devs, organizationId) ==
  { d \in DOMAIN devs : devs[d].organizationId = organizationId }
BackupsOfOrg(baks, organizationId) ==
  { b \in DOMAIN baks : baks[b].organizationId = organizationId }
ProjectsOfOrg(prjs, organizationId) ==
  { x \in DOMAIN prjs : prjs[x].organizationId = organizationId }

\* how database.transaction(cb) ends once cb has returned: a transaction in
\* which a statement failed is aborted and its COMMIT rolls back; otherwise
\* the transaction's effects become visible together
TxOutcomeAutocommit(status) == "commit"
TxOutcomeNeverCommits(status) == "rollback"
TxOutcome(status) == IF status = "active" THEN "commit" ELSE "rollback"

\* --------------------------------------------------------- call lifecycle
Start(p, o, a, first) ==
  /\ pc[p] \in {"idle", "done"}
  /\ calls < MaxCalls
  /\ calls' = calls + 1
  /\ pc' = [pc EXCEPT ![p] = first]
  /\ op' = [op EXCEPT ![p] = o]
  /\ args' = [args EXCEPT ![p] = a]
  /\ loc' = [loc EXCEPT ![p] = NoLoc]
  /\ result' = [result EXCEPT ![p] = NoResult]
  /\ UNCHANGED << tables, nextId, clock, tx, pool >>

\* what a read of the clock (new Date(), now()) can return: time does not run
\* backward, so the latest instant read so far or a later one; clock is the
\* latest instant read so far
Instants == { t \in clock..(clock + 1) : t <= MaxClock }

\* database.transaction(async (tx) => ...): BEGIN; a failing BEGIN rejects
\* the promise outside the callback's try block
TxBegin(p, at, next) ==
  /\ pc[p] = at
  /\ \E ok \in BOOLEAN :
       IF ok
         THEN /\ tx' = [tx EXCEPT ![p] = [NoTx EXCEPT !.status = "active"]]
              /\ pc' = [pc EXCEPT ![p] = next]
              /\ UNCHANGED result
         ELSE /\ pc' = [pc EXCEPT ![p] = "done"]
              /\ result' = [result EXCEPT ![p] = Thrown]
              /\ UNCHANGED tx
  /\ UNCHANGED << tables, nextId, clock, op, args, loc, calls, pool >>

\* the callback has returned its envelope: COMMIT (or roll back), then the
\* envelope becomes the operation's result; a failing COMMIT rejects
TxEnd(p, at) ==
  /\ pc[p] = at
  /\ \E ok \in BOOLEAN :
       /\ IF ok /\ TxOutcome(tx[p].status) = "commit"
            THEN /\ organizations' =
                      Merge(Without(organizations, tx[p].delOrgs), tx[p].insOrgs)
                 /\ deviceRegistrations' =
                      Merge(Without(deviceRegistrations, tx[p].delDevs), tx[p].insDevs)
                 /\ recoveryBackups' =
                      Merge(Without(recoveryBackups, tx[p].delBaks), tx[p].insBaks)
                 /\ projects' = Without(projects, tx[p].delPrjs)
            ELSE UNCHANGED tables
       /\ result' = [result EXCEPT ![p] = IF ok THEN @ ELSE Thrown]
  /\ tx' = [tx EXCEPT ![p] = NoTx]
  /\ pc' = [pc EXCEPT ![p] = "done"]
  /\ UNCHANGED << nextId, clock, op, args, loc, calls, pool >>

\* the catch block inside a transaction callback: the failed statement has
\* aborted the transaction; the callback returns INTERNAL_ERROR normally
TxCatch(p, end) ==
  /\ tx' = [tx EXCEPT ![p].status = "aborted"]
  /\ result' = [result EXCEPT ![p] = Err("INTERNAL_ERROR")]
  /\ loc' = [loc EXCEPT ![p].logged = TRUE]
  /\ pc' = [pc EXCEPT ![p] = end]

\* ------------------------------------------------------------------ create
\* OrganizationController.create receives a request: the session its token
\* resolves to, if any, and a payload naming an owner
CreateStart(p) ==
  \E s \in Users \cup {NoUser}, o \in Users :
    Start(p, "create",
          [NoArgs EXCEPT !.ownerId = o, !.name = "acme", !.session = s], "c_auth")

\* createOrganizationDto.ownerId !== session.data.session.userId
CannotCreateForNobody(ownerId, userId) == FALSE
CannotCreateFor(ownerId, userId) == ownerId # userId

\* the controller answers a request without a session with the session error
\* and one for another user with FORBIDDEN; otherwise it calls
\* organizationService.create
CreateAuthorize(p) ==
  /\ pc[p] = "c_auth"
  /\ IF args[p].session = NoUser
       THEN /\ result' = [result EXCEPT ![p] = Err("TOKEN_MISSING")]
            /\ pc' = [pc EXCEPT ![p] = "done"]
       ELSE IF CannotCreateFor(args[p].ownerId, args[p].session)
         THEN /\ result' = [result EXCEPT ![p] = Err("FORBIDDEN")]
              /\ pc' = [pc EXCEPT ![p] = "done"]
         ELSE /\ pc' = [pc EXCEPT ![p] = "c_begin"]
              /\ UNCHANGED result
  /\ UNCHANGED << tables, nextId, clock, op, args, loc, tx, calls, pool >>

CreateBegin(p) == TxBegin(p, "c_begin", "c_org")

\* 1. insert the organization row, returning {id, name}; the row's defaultNow()
\* columns take now(), the instant the transaction reads at its first statement
\* and keeps until it ends
CreateInsertOrg(p) ==
  /\ pc[p] = "c_org"
  /\ \E ok \in BOOLEAN :
       IF ok /\ nextId.org <= MaxOrgs
         THEN /\ \E now \in Instants :
                   /\ tx' = [tx EXCEPT ![p].insOrgs =
                               Extend(@, nextId.org, NewOrgRow(nextId.org, args[p], now))]
                   /\ clock' = now
              /\ loc' = [loc EXCEPT ![p].org = nextId.org, ![p].now = clock']
              /\ nextId' = [nextId EXCEPT !.org = @ + 1]
              /\ pc' = [pc EXCEPT ![p] = "c_dev"]
              /\ UNCHANGED result
         ELSE /\ TxCatch(p, "c_end")
              /\ UNCHANGED << nextId, clock >>
  /\ UNCHANGED << tables, op, args, calls, pool >>

\* 2. insert the device registration bound to org.id and dto.ownerId; its
\* defaultNow() columns take the transaction's instant
CreateInsertDevice(p) ==
  /\ pc[p] = "c_dev"
  /\ \E ok \in BOOLEAN :
       IF ok /\ loc[p].org \in DOMAIN tx[p].insOrgs \cup DOMAIN organizations
         THEN /\ tx' = [tx EXCEPT ![p].insDevs =
                          Extend(@, nextId.dev, NewDeviceRow(loc[p].org, args[p], loc[p].now))]
              /\ loc' = [loc EXCEPT ![p].device = nextId.dev]
              /\ nextId' = [nextId EXCEPT !.dev = @ + 1]
              /\ pc' = [pc EXCEPT ![p] = "c_bak"]
              /\ UNCHANGED result
         ELSE /\ TxCatch(p, "c_end")
              /\ UNCHANGED nextId
  /\ UNCHANGED << tables, clock, op, args, calls, pool >>

\* 3. insert the recovery-backup placeholder, then return the success envelope
CreateInsertBackup(p) ==
  /\ pc[p] = "c_bak"
  /\ \E ok \in BOOLEAN :
       IF ok /\ loc[p].org \in DOMAIN tx[p].insOrgs \cup DOMAIN organizations
         THEN /\ tx' = [tx EXCEPT ![p].insBaks =
                          Extend(@, nextId.bak, NewBackupRow(loc[p].org, args[p]))]
              /\ nextId' = [nextId EXCEPT !.bak = @ + 1]
              /\ result' = [result EXCEPT ![p] =
                              Ok([id |-> loc[p].org, name |-> args[p].name,
                                  deviceRegistrationId |-> loc[p].device])]
              /\ pc' = [pc EXCEPT ![p] = "c_end"]
              /\ UNCHANGED loc
         ELSE /\ TxCatch(p, "c_end")
              /\ UNCHANGED nextId
  /\ UNCHANGED << tables, clock, op, args, calls, pool >>

CreateEnd(p) == TxEnd(p, "c_end")

Create(p) ==
  \/ CreateStart(p)
  \/ CreateAuthorize(p)
  \/ CreateBegin(p)
  \/ CreateInsertOrg(p)
  \/ CreateInsertDevice(p)
  \/ CreateInsertBackup(p)
  \/ CreateEnd(p)

\* ---------------------------------------------------- non-transactional ops
\* a handler step outside a transaction: it finishes the call with result r
\* (its other locals go out of scope; what it logged and what its gate
\* answered stay observable)
Finish(p, r, access, logged) ==
  /\ result' = [result EXCEPT ![p] = r]
  /\ pc' = [pc EXCEPT ![p] = "done"]
  /\ loc' = [loc EXCEPT ![p] = [NoLoc EXCEPT !.access = access, !.logged = logged]]

Done(p, r) == Finish(p, r, loc[p].access, loc[p].logged)

\* the catch block of a non-transactional handler: logger.error, then the
\* INTERNAL_ERROR envelope
Catch(p) == Finish(p, Err("INTERNAL_ERROR"), loc[p].access, TRUE)

\* ----------------------------------------------------------------- findOne
FindOneStart(p) ==
  \E id \in KnownIds(nextId.org), o \in Users :
    Start(p, "findOne", [NoArgs EXCEPT !.id = id, !.ownerId = o], "f_sel")

FindOneSelect(p) ==
  /\ pc[p] = "f_sel"
  /\ \E ok \in BOOLEAN :
       IF ~ok THEN Catch(p)
       ELSE /\ IF OrgMatches(organizations, args[p].id, args[p].ownerId)
                 THEN Done(p, Ok([id |-> args[p].id,
                                    name |-> organizations[args[p].id].name,
                                    ownerId |-> organizations[args[p].id].ownerId]))
                 ELSE Done(p, Err("ORG_NOT_FOUND"))
  /\ UNCHANGED << tables, nextId, clock, op, args, tx, calls, pool >>

FindOne(p) == FindOneStart(p) \/ FindOneSelect(p)

\* ------------------------------------------------------------------ update
UpdateStart(p) ==
  \E id \in KnownIds(nextId.org), o \in Users, n \in Names :
    Start(p, "update", [NoArgs EXCEPT !.id = id, !.ownerId = o, !.name = n], "u_sel")

\* check that the organization exists and belongs to the owner; the request
\* then builds the update statement, reading the clock for updatedAt
UpdateSelect(p) ==
  /\ pc[p] = "u_sel"
  /\ \E ok \in BOOLEAN :
       IF ~ok THEN Catch(p) /\ UNCHANGED clock
       ELSE IF OrgMatches(organizations, args[p].id, args[p].ownerId)
         THEN /\ pc' = [pc EXCEPT ![p] = "u_upd"]
              /\ \E now \in Instants :
                   /\ loc' = [loc EXCEPT ![p].now = now]
                   /\ clock' = now
              /\ UNCHANGED result
         ELSE /\ Done(p, Err("ORG_NOT_FOUND"))
              /\ UNCHANGED clock
  /\ UNCHANGED << tables, nextId, op, args, tx, calls, pool >>

\* the row written by set({ name }): the name, and updatedAt through the
\* column's $onUpdate
RenamedRow(row, name, ownerId, now) == [row EXCEPT !.name = name, !.updatedAt = now]

\* the rows where(eq(organizations.id, id)) matches when the statement runs
UpdateTargetsNone(orgs, id) == {}
UpdateTargets(orgs, id) == { i \in DOMAIN orgs : i = id }

\* update(organizations).set({name}).where(eq(organizations.id, id)).returning()
\* then test the returned row: UNKNOWN_ERROR when there is none
UpdateWrite(p) ==
  /\ pc[p] = "u_upd"
  /\ args[p].id \notin LockedOrgs(p)
  /\ \E ok \in BOOLEAN :
       IF ~ok THEN Catch(p) /\ UNCHANGED organizations
       ELSE IF UpdateTargets(organizations, args[p].id) # {}
         THEN /\ organizations' = [organizations EXCEPT ![args[p].id] =
                   RenamedRow(@, args[p].name, args[p].ownerId, loc[p].now)]
              /\ Done(p, Ok(organizations'[args[p].id] @@ [id |-> args[p].id]))
         ELSE /\ Done(p, Err("UNKNOWN_ERROR"))
              /\ UNCHANGED organizations
  /\ UNCHANGED << deviceRegistrations, recoveryBackups, projects,
                  nextId, clock, op, args, tx, calls, pool >>

Update(p) == UpdateStart(p) \/ UpdateSelect(p) \/ UpdateWrite(p)

\* ------------------------------------------------------------------ remove
RemoveStart(p) ==
  \E id \in KnownIds(nextId.org), o \in Users :
    Start(p, "remove", [NoArgs EXCEPT !.id = id, !.ownerId = o], "r_begin")

RemoveBegin(p) == TxBegin(p, "r_begin", "r_sel")

\* first check that the organization exists and belongs to the owner
RemoveSelect(p) ==
  /\ pc[p] = "r_sel"
  /\ \E ok \in BOOLEAN :
       IF ~ok THEN TxCatch(p, "r_end")
       ELSE IF OrgMatches(organizations, args[p].id, args[p].ownerId)
         THEN /\ pc' = [pc EXCEPT ![p] = "r_dev"]
              /\ UNCHANGED << result, loc, tx >>
         ELSE /\ result' = [result EXCEPT ![p] = Err("ORG_NOT_FOUND")]
              /\ pc' = [pc EXCEPT ![p] = "r_end"]
              /\ UNCHANGED << loc, tx >>
  /\ UNCHANGED << tables, nextId, clock, op, args, calls, pool >>

\* delete(deviceRegistrations).where(eq(organizationId, id))
RemoveDeleteDevices(p) ==
  /\ pc[p] = "r_dev"
  /\ DevicesOfOrg(deviceRegistrations, args[p].id) \cap LockedDevs(p) = {}
  /\ \E ok \in BOOLEAN :
       IF ~ok THEN TxCatch(p, "r_end")
       ELSE /\ tx' = [tx EXCEPT ![p].delDevs =
                        @ \cup DevicesOfOrg(deviceRegistrations, args[p].id)]
            /\ pc' = [pc EXCEPT ![p] = "r_bak"]
            /\ UNCHANGED << result, loc >>
  /\ UNCHANGED << tables, nextId, clock, op, args, calls, pool >>

\* delete(recoveryBackups).where(eq(organizationId, id))
RemoveDeleteBackups(p) ==
  /\ pc[p] = "r_bak"
  /\ BackupsOfOrg(recoveryBackups, args[p].id) \cap LockedBaks(p) = {}
  /\ \E ok \in BOOLEAN :
       IF ~ok THEN TxCatch(p, "r_end")
       ELSE /\ tx' = [tx EXCEPT ![p].delBaks =
                        @ \cup BackupsOfOrg(recoveryBackups, args[p].id)]
            /\ pc' = [pc EXCEPT ![p] = "r_org"]
            /\ UNCHANGED << result, loc >>
  /\ UNCHANGED << tables, nextId, clock, op, args, calls, pool >>

\* what `await tx.delete(organizations).where(...)` resolves to: the statement
\* has no .returning(), so the postgres-js driver resolves it to the rows the
\* statement returned, which are none, however many rows it deleted
DeletedRowsIsAffected(matched) == matched
DeletedRows(matched) == {}

\* the rows delete(organizations).where(and(eq(id, id), eq(ownerId, ownerId)))
\* deletes
RemoveTargetsWrongColumn(orgs, id, ownerId) == {}
RemoveTargets(orgs, id, ownerId) ==
  IF OrgMatches(orgs, id, ownerId) THEN {id} ELSE {}

\* delete the organization row (the foreign keys cascade to its child rows),
\* then test deletedRows.length
RemoveDeleteOrg(p) ==
  /\ pc[p] = "r_org"
  /\ LET matched == RemoveTargets(organizations, args[p].id, args[p].ownerId)
         kids == DevicesOfOrg(deviceRegistrations, args[p].id)
         baks == BackupsOfOrg(recoveryBackups, args[p].id)
         prjs == ProjectsOfOrg(projects, args[p].id)
     IN /\ matched \cap LockedOrgs(p) = {}
        /\ matched # {} =>
             /\ kids \cap LockedDevs(p) = {}
             /\ baks \cap LockedBaks(p) = {}
             /\ prjs \cap LockedPrjs(p) = {}
        /\ \E ok \in BOOLEAN :
             IF ~ok THEN TxCatch(p, "r_end")
             ELSE /\ tx' = [tx EXCEPT
                              ![p].delOrgs = @ \cup matched,
                              ![p].delDevs = IF matched = {} THEN @ ELSE @ \cup kids,
                              ![p].delBaks = IF matched = {} THEN @ ELSE @ \cup baks,
                              ![p].delPrjs = IF matched = {} THEN @ ELSE @ \cup prjs]
                  /\ result' = [result EXCEPT ![p] =
                       IF Cardinality(DeletedRows(matched)) = 0
                         THEN Err("UNKNOWN_ERROR")
                         ELSE Ok([deleted |-> TRUE, id |-> args[p].id])]
                  /\ pc' = [pc EXCEPT ![p] = "r_end"]
                  /\ UNCHANGED loc
  /\ UNCHANGED << tables, nextId, clock, op, args, calls, pool >>

RemoveEnd(p) == TxEnd(p, "r_end")

Remove(p) ==
  \/ RemoveStart(p)
  \/ RemoveBegin(p)
  \/ RemoveSelect(p)
  \/ RemoveDeleteDevices(p)
  \/ RemoveDeleteBackups(p)
  \/ RemoveDeleteOrg(p)
  \/ RemoveEnd(p)

\* -------------------------------------------------------------------- keys
KeysStart(p) ==
  \E id \in KnownIds(nextId.org), o \in Users :
    Start(p, "keys", [NoArgs EXCEPT !.id = id, !.ownerId = o], "k_org")

\* the columns keys() selects from the organization row
KeyColumns(row) ==
  [ privateKeyEncrypted |-> row.privateKeyEncrypted,
    keyDerivationSalt |-> row.keyDerivationSalt,
    encryptionIv |-> row.encryptionIv ]

\* select the key material where ownerId and id both match
KeysSelectOrg(p) ==
  /\ pc[p] = "k_org"
  /\ \E ok \in BOOLEAN :
       IF ~ok THEN Catch(p)
       ELSE IF OrgMatches(organizations, args[p].id, args[p].ownerId)
         THEN /\ loc' = [loc EXCEPT ![p].row = Some(KeyColumns(organizations[args[p].id]))]
              /\ pc' = [pc EXCEPT ![p] = "k_dev"]
              /\ UNCHANGED result
         ELSE /\ Done(p, Err("ORG_NOT_FOUND"))
  /\ UNCHANGED << tables, nextId, clock, op, args, tx, calls, pool >>

\* and(eq(organizationId, orgId), eq(userId, ownerId), eq(isActive, true))
ActiveDevicesAnyState(devs, orgId, ownerId) ==
  { d \in DOMAIN devs : devs[d].organizationId = orgId /\ devs[d].userId = ownerId }
ActiveDevices(devs, orgId, ownerId) ==
  { d \in DOMAIN devs : /\ devs[d].organizationId = orgId
                        /\ devs[d].userId = ownerId
                        /\ devs[d].isActive }

\* { ...org, deviceInfo: device }; device is the first row of the device query,
\* no value when the query returned no row
KeysEnvelope(row, device) == Ok(row[1] @@ [deviceInfo |-> device])

\* select one active device of (orgId, ownerId): limit(1) without an order
KeysSelectDevice(p) ==
  /\ pc[p] = "k_dev"
  /\ \E ok \in BOOLEAN :
       IF ~ok THEN Catch(p)
       ELSE LET found == ActiveDevices(deviceRegistrations, args[p].id, args[p].ownerId)
            IN IF found = {}
                 THEN /\ Done(p, KeysEnvelope(loc[p].row, Null))
                 ELSE \E d \in found :
                        /\ loc' = [loc EXCEPT ![p].device = d]
                        /\ pc' = [pc EXCEPT ![p] = "k_now"]
                        /\ UNCHANGED result
  /\ UNCHANGED << tables, nextId, clock, op, args, tx, calls, pool >>

\* set({ lastUsed: new Date() }): the request reads its clock, then sends the
\* statement
KeysReadClock(p) ==
  /\ pc[p] = "k_now"
  /\ \E now \in Instants :
       /\ loc' = [loc EXCEPT ![p].now = now]
       /\ clock' = now
  /\ pc' = [pc EXCEPT ![p] = "k_upd"]
  /\ UNCHANGED << tables, nextId, op, args, tx, result, calls, pool >>

\* the row written by update(deviceRegistrations).set({lastUsed})
\* (updatedAt follows through the column's $onUpdate)
TouchedRowNeverBackward(row, now) ==
  [row EXCEPT !.lastUsed = IF now > @ THEN now ELSE @, !.updatedAt = now]
TouchedRowReactivating(row, now) ==
  [row EXCEPT !.lastUsed = now, !.updatedAt = now, !.isActive = TRUE]
TouchedRow(row, now) == [row EXCEPT !.lastUsed = now, !.updatedAt = now]

\* the store applies the statement: where(eq(deviceRegistrations.id, device.id))
KeysTouchDevice(p) ==
  /\ pc[p] = "k_upd"
  /\ loc[p].device \notin LockedDevs(p)
  /\ \E ok \in BOOLEAN :
       IF ~ok THEN Catch(p) /\ UNCHANGED deviceRegistrations
       ELSE /\ deviceRegistrations' =
                 IF loc[p].device \in DOMAIN deviceRegistrations
                   THEN [deviceRegistrations EXCEPT
                           ![loc[p].device] = TouchedRow(@, loc[p].now)]
                   ELSE deviceRegistrations
            /\ Done(p, KeysEnvelope(loc[p].row,
                           Some([id |-> loc[p].device, isActive |-> TRUE])))
  /\ UNCHANGED << organizations, recoveryBackups, projects,
                  nextId, clock, op, args, tx, calls, pool >>

Keys(p) ==
  \/ KeysStart(p)
  \/ KeysSelectOrg(p)
  \/ KeysSelectDevice(p)
  \/ KeysReadClock(p)
  \/ KeysTouchDevice(p)

\* --------------------------------------------------------------- hasAccess
\* select id where ownerId and id both match; !!org, and false when the query
\* throws
hasAccessFailOpen(ok, orgs, organizationId, ownerId) ==
  IF ok THEN OrgMatches(orgs, organizationId, ownerId) ELSE TRUE
hasAccessAnyOwner(ok, orgs, organizationId, ownerId) ==
  IF ok THEN organizationId \in DOMAIN orgs ELSE FALSE
hasAccess(ok, orgs, organizationId, ownerId) ==
  IF ok THEN OrgMatches(orgs, organizationId, ownerId) ELSE FALSE

\* the gate every device operation and the project controller start with;
\* revokeDeviceAccess reads the clock (updatedAt: new Date()) as it builds the
\* statement that follows the gate
GateSkipped(p, at, next) ==
  /\ pc[p] = at
  /\ pc' = [pc EXCEPT ![p] = next]
  /\ UNCHANGED << tables, nextId, clock, op, args, loc, tx, result, calls, pool >>
Gate(p, at, next) ==
  /\ pc[p] = at
  /\ \E ok \in BOOLEAN :
       LET granted == hasAccess(ok, organizations, args[p].id, args[p].ownerId)
       IN IF granted
            THEN /\ \E now \in IF next = "v_upd" THEN Instants ELSE {clock} :
                      /\ loc' = [loc EXCEPT ![p].access = TRUE, ![p].logged = ~ok,
                                             ![p].now = IF next = "v_upd" THEN now ELSE @]
                      /\ clock' = now
                 /\ pc' = [pc EXCEPT ![p] = next]
                 /\ UNCHANGED result
            ELSE Finish(p, Err("ORG_NOT_FOUND"), FALSE, ~ok) /\ UNCHANGED clock
  /\ UNCHANGED << tables, nextId, op, args, tx, calls, pool >>

\* ---------------------------------------------------- getRegisteredDevices
DevicesStart(p) ==
  \E id \in KnownIds(nextId.org), o \in Users :
    Start(p, "getRegisteredDevices", [NoArgs EXCEPT !.id = id, !.ownerId = o], "g_acc")

DevicesGate(p) == Gate(p, "g_acc", "g_sel")

\* and(eq(organizationId, organizationId), eq(userId, ownerId))
DevicesOfActiveOnly(devs, orgId, ownerId) ==
  { d \in DOMAIN devs : /\ devs[d].organizationId = orgId /\ devs[d].userId = ownerId
                        /\ devs[d].isActive }
DevicesOf(devs, orgId, ownerId) ==
  { d \in DOMAIN devs : devs[d].organizationId = orgId /\ devs[d].userId = ownerId }

\* orderBy(desc(lastUsed)): any order of the rows with lastUsed descending
OrderedByLastUsed(devs, ids) ==
  { s \in [1..Cardinality(ids) -> ids] :
      /\ \A i, j \in DOMAIN s : i # j => s[i] # s[j]
      /\ \A i, j \in DOMAIN s : i < j => devs[s[i]].lastUsed >= devs[s[j]].lastUsed }

DeviceSummary(devs, d) ==
  [id |-> d, isActive |-> devs[d].isActive, lastUsed |-> devs[d].lastUsed]

DevicesSelect(p) ==
  /\ pc[p] = "g_sel"
  /\ \E ok \in BOOLEAN :
       IF ~ok THEN Catch(p)
       ELSE /\ \E s \in OrderedByLastUsed(deviceRegistrations,
                          DevicesOf(deviceRegistrations, args[p].id, args[p].ownerId)) :
                 Done(p, Ok([devices |->
                   [i \in DOMAIN s |-> DeviceSummary(deviceRegistrations, s[i])]]))
  /\ UNCHANGED << tables, nextId, clock, op, args, tx, calls, pool >>

GetRegisteredDevices(p) == DevicesStart(p) \/ DevicesGate(p) \/ DevicesSelect(p)

\* ------------------------------------------------------ revokeDeviceAccess
RevokeStart(p) ==
  \E id \in KnownIds(nextId.org), d \in KnownIds(nextId.dev), o \in Users :
    Start(p, "revokeDeviceAccess",
          [NoArgs EXCEPT !.id = id, !.deviceId = d, !.ownerId = o], "v_acc")

RevokeGate(p) == Gate(p, "v_acc", "v_upd")

\* set({ isActive: false, updatedAt: new Date() })
RevokedRow(row, now) == [row EXCEPT !.isActive = FALSE, !.updatedAt = now]

\* update where id, organizationId and userId all match, returning {id}
RevokeWrite(p) ==
  /\ pc[p] = "v_upd"
  /\ args[p].deviceId \notin LockedDevs(p)
  /\ \E ok \in BOOLEAN :
       IF ~ok THEN Catch(p) /\ UNCHANGED deviceRegistrations
       ELSE IF DeviceMatches(deviceRegistrations, args[p].deviceId,
                             args[p].id, args[p].ownerId)
         THEN /\ deviceRegistrations' =
                   [deviceRegistrations EXCEPT ![args[p].deviceId] = RevokedRow(@, loc[p].now)]
              /\ Done(p, Ok([deviceId |-> args[p].deviceId, revoked |-> TRUE]))
         ELSE /\ Done(p, Err("DEVICE_NOT_FOUND"))
              /\ UNCHANGED deviceRegistrations
  /\ UNCHANGED << organizations, recoveryBackups, projects,
                  nextId, clock, op, args, tx, calls, pool >>

RevokeDeviceAccess(p) == RevokeStart(p) \/ RevokeGate(p) \/ RevokeWrite(p)

\* ------------------------------------------------ ProjectController.create
ProjectStart(p) ==
  \E id \in KnownIds(nextId.org), o \in Users :
    Start(p, "projectCreate", [NoArgs EXCEPT !.id = id, !.ownerId = o], "j_acc")

ProjectGate(p) == Gate(p, "j_acc", "j_ins")

\* projectService.create: insert(projects).values(dto).returning({id})
ProjectInsert(p) ==
  /\ pc[p] = "j_ins"
  /\ args[p].id \notin LockedOrgs(p)
  /\ \E ok \in BOOLEAN :
       IF ok /\ args[p].id \in DOMAIN organizations
         THEN /\ projects' = Extend(projects, nextId.prj, [organizationId |-> args[p].id])
              /\ nextId' = [nextId EXCEPT !.prj = @ + 1]
              /\ Done(p, Ok([id |-> nextId.prj]))
         ELSE /\ Catch(p)
              /\ UNCHANGED << projects, nextId >>
  /\ UNCHANGED << organizations, deviceRegistrations, recoveryBackups,
                  clock, op, args, tx, calls, pool >>

ProjectCreate(p) == ProjectStart(p) \/ ProjectGate(p) \/ ProjectInsert(p)

\* -------------------------------------------------------------------- spec
Next ==
  \/ \E p \in Procs : Create(p)
  \/ \E p \in Procs : FindOne(p)
  \/ \E p \in Procs : Update(p)
  \/ \E p \in Procs : Remove(p)
  \/ \E p \in Procs : Keys(p)
  \/ \E p \in Procs : GetRegisteredDevices(p)
  \/ \E p \in Procs : RevokeDeviceAccess(p)
  \/ \E p \in Procs : ProjectCreate(p)

Spec == Init /\ [][Next]_vars

\* ----------------------------------------------------------------- findAll
\* findAll only reads the organizations table.  It is checked in a
\* specification of its own, SpecFindAll, in which the table changes under it
\* by the commits of concurrent create calls; there an
\* organization row carries the columns findAll filters and orders by.
MaxFaOrgs == 3       \* organization rows ever committed
MaxFaClock == 1      \* instants rows are created at
MaxFaCalls == 1      \* findAll calls ever started
MaxPage == 3         \* largest page argument
MaxLimit == 2        \* largest small limit argument

DefaultLimit == 10   \* if (limit < 1) limit = 10
LimitCap == 100      \* if (limit > 100) limit = 100

FaProcs == {"p1"}
Pages == (0 - 1)..MaxPage
Limits == ((0 - 1)..MaxLimit) \cup {LimitCap - 1, LimitCap, LimitCap + 1}

\* if (page < 1) page = 1
ClampPage(page) == IF page < 1 THEN 1 ELSE page

\* if (limit < 1) limit = 10; if (limit > 100) limit = 100
ClampLimitUncapped(limit) == IF limit < 1 THEN DefaultLimit ELSE limit
ClampLimit(limit) ==
  LET l == IF limit < 1 THEN DefaultLimit ELSE limit
  IN IF l > LimitCap THEN LimitCap ELSE l

\* const offset = (page - 1) * limit
OffsetFromPage(page, limit) == page * limit
Offset(page, limit) == (page - 1) * limit

\* Math.ceil(total / limit), for limit >= 1
Ceil(total, limit) == (total + limit - 1) \div limit

\* where(eq(organizations.ownerId, ownerId))
OwnedByAnyone(orgs, ownerId) == DOMAIN orgs
OwnedBy(orgs, ownerId) == { i \in DOMAIN orgs : orgs[i].ownerId = ownerId }

\* orderBy(desc(createdAt)): every order of the rows with createdAt
\* descending; rows created at the same instant come in any order
OrderedByCreatedAt(orgs, ids) ==
  { s \in [1..Cardinality(ids) -> ids] :
      /\ \A i, j \in DOMAIN s : i # j => s[i] # s[j]
      /\ \A i, j \in DOMAIN s : i < j => orgs[s[i]].createdAt >= orgs[s[j]].createdAt }

\* .limit(limit).offset(offset)
PageOf(s, offset, limit) ==
  [ i \in 1..(IF Len(s) - offset < 0 THEN 0
              ELSE IF Len(s) - offset < limit THEN Len(s) - offset ELSE limit)
      |-> s[offset + i] ]

\* the selected columns of a row
OrgSummary(orgs, i) == [id |-> i, name |-> orgs[i].name, createdAt |-> orgs[i].createdAt]

FaRow(o, n, t) == [ownerId |-> o, name |-> n, createdAt |-> t]
NoFaLoc == [page |-> 0, limit |-> 0, offset |-> 0, data |-> << >>, logged |-> FALSE]

InitFindAll ==
  /\ organizations = [i \in {1} |-> FaRow("u1", "acme", 0)]
  /\ deviceRegistrations = EmptyRows
  /\ recoveryBackups = EmptyRows
  /\ projects = EmptyRows
  /\ nextId = [org |-> 2, dev |-> 1, bak |-> 1, prj |-> 1]
  /\ clock = 0
  /\ pc = [p \in FaProcs |-> "idle"]
  /\ op = [p \in FaProcs |-> "none"]
  /\ args = [p \in FaProcs |-> [ownerId |-> "u1", page |-> 1, limit |-> 1]]
  /\ loc = [p \in FaProcs |-> NoFaLoc]
  /\ tx = [p \in FaProcs |-> NoTx]
  /\ result = [p \in FaProcs |-> NoResult]
  /\ calls = 0
  /\ client = 1
  /\ db = 1
  /\ clients = {1}

\* the call: the arguments are clamped and the offset computed before the
\* first query is sent
FindAllStart(p) ==
  /\ pc[p] \in {"idle", "done"}
  /\ calls < MaxFaCalls
  /\ \E o \in Users, page \in Pages, limit \in Limits :
       /\ args' = [args EXCEPT ![p] = [ownerId |-> o, page |-> page, limit |-> limit]]
       /\ loc' = [loc EXCEPT ![p] =
                    [NoFaLoc EXCEPT !.page = ClampPage(page),
                                    !.limit = ClampLimit(limit),
                                    !.offset = Offset(ClampPage(page), ClampLimit(limit))]]
  /\ calls' = calls + 1
  /\ pc' = [pc EXCEPT ![p] = "fa_data"]
  /\ op' = [op EXCEPT ![p] = "findAll"]
  /\ result' = [result EXCEPT ![p] = NoResult]
  /\ UNCHANGED << tables, nextId, clock, tx, pool >>

\* the catch block of findAll
FindAllCatch(p) ==
  /\ result' = [result EXCEPT ![p] = Err("INTERNAL_ERROR")]
  /\ loc' = [loc EXCEPT ![p].logged = TRUE]
  /\ pc' = [pc EXCEPT ![p] = "done"]

\* fetch the page: the caller's rows, newest first, limit rows from offset
FindAllSelect(p) ==
  /\ pc[p] = "fa_data"
  /\ \E ok \in BOOLEAN :
       IF ~ok THEN FindAllCatch(p)
       ELSE \E s \in OrderedByCreatedAt(organizations,
                                        OwnedBy(organizations, args[p].ownerId)) :
              /\ loc' = [loc EXCEPT ![p].data =
                           [ i \in DOMAIN PageOf(s, loc[p].offset, loc[p].limit) |->
                               OrgSummary(organizations,
                                          PageOf(s, loc[p].offset, loc[p].limit)[i]) ]]
              /\ pc' = [pc EXCEPT ![p] = "fa_count"]
              /\ UNCHANGED result
  /\ UNCHANGED << tables, nextId, clock, op, args, tx, calls, pool >>

\* count the caller's rows and build the pagination summary
FindAllCount(p) ==
  /\ pc[p] = "fa_count"
  /\ \E ok \in BOOLEAN :
       IF ~ok THEN FindAllCatch(p)
       ELSE LET total == Cardinality(OwnedBy(organizations, args[p].ownerId))
            IN /\ result' = [result EXCEPT ![p] =
                    Ok([ allOrgs |-> loc[p].data,
                         pagination |->
                           [ total |-> total,
                             page |-> loc[p].page,
                             limit |-> loc[p].limit,
                             pages |-> Ceil(total, loc[p].limit),
                             hasNext |-> loc[p].page < Ceil(total, loc[p].limit),
                             hasPrev |-> loc[p].page > 1 ] ])]
               /\ pc' = [pc EXCEPT ![p] = "done"]
               /\ UNCHANGED loc
  /\ UNCHANGED << tables, nextId, clock, op, args, tx, calls, pool >>

FindAll(p) == FindAllStart(p) \/ FindAllSelect(p) \/ FindAllCount(p)

\* a concurrent create commits: its organization row becomes visible, with
\* createdAt = now()
OrgCommitted ==
  /\ nextId.org <= MaxFaOrgs
  /\ \E o \in Users :
       organizations' = Extend(organizations, nextId.org, FaRow(o, "acme", clock))
  /\ nextId' = [nextId EXCEPT !.org = @ + 1]
  /\ UNCHANGED << deviceRegistrations, recoveryBackups, projects, clock,
                  pc, op, args, loc, tx, result, calls, pool >>

FaTick ==
  /\ clock < MaxFaClock
  /\ clock' = clock + 1
  /\ UNCHANGED << tables, nextId, pc, op, args, loc, tx, result, calls, pool >>

NextFindAll ==
  \/ \E p \in FaProcs : FindAll(p)
  \/ OrgCommitted
  \/ FaTick

SpecFindAll == InitFindAll /\ [][NextFindAll]_vars

\* ------------------------------------------------------ initializeDatabase
\* db.ts keeps the postgres client and the drizzle handle in two module-level
\* variables.  initializeDatabase is checked in a specification of its own,
\* SpecInitDb, which starts before any call: the callers (the DATABASE
\* provider's factory and auth.instance.ts) run while the process starts.  A
\* client is named by the order it was constructed in; the handle
\* drizzle(client) is named after its client.
MaxInitCalls == 3    \* calls of db.ts functions ever started

Handle(h) == [kind |-> "handle", data |-> Some(h), error |-> Null]

InitInitDb ==
  /\ organizations = EmptyRows
  /\ deviceRegistrations = EmptyRows
  /\ recoveryBackups = EmptyRows
  /\ projects = EmptyRows
  /\ nextId = [org |-> 1, dev |-> 1, bak |-> 1, prj |-> 1]
  /\ clock = 0
  /\ pc = [p \in Procs |-> "idle"]
  /\ op = [p \in Procs |-> "none"]
  /\ args = [p \in Procs |-> NoArgs]
  /\ loc = [p \in Procs |-> NoLoc]
  /\ tx = [p \in Procs |-> NoTx]
  /\ result = [p \in Procs |-> NoResult]
  /\ calls = 0
  /\ client = NoClient
  /\ db = NoClient
  /\ clients = {}

\* the call runs to its first await: if (!client) { await import('postgres')
\* ... }, else return db
InitDbCall(p) ==
  /\ pc[p] \in {"idle", "done"}
  /\ calls < MaxInitCalls
  /\ calls' = calls + 1
  /\ op' = [op EXCEPT ![p] = "initializeDatabase"]
  /\ IF client = NoClient
       THEN /\ pc' = [pc EXCEPT ![p] = "i_import"]
            /\ result' = [result EXCEPT ![p] = NoResult]
       ELSE /\ pc' = [pc EXCEPT ![p] = "done"]
            /\ result' = [result EXCEPT ![p] = Handle(db)]
  /\ UNCHANGED << tables, nextId, clock, args, loc, tx, pool >>

\* the import has resolved: client = postgresClient(...); db = drizzle(client);
\* then the call waits for client`SELECT 1`
InitDbConstruct(p) ==
  /\ pc[p] = "i_import"
  /\ LET c == Cardinality(clients) + 1
     IN /\ client' = c
        /\ db' = c
        /\ clients' = clients \cup {c}
  /\ pc' = [pc EXCEPT ![p] = "i_select"]
  /\ UNCHANGED << tables, nextId, clock, op, args, loc, tx, result, calls >>

\* the connection test has ended: return db, or rethrow its error
InitDbSelect(p) ==
  /\ pc[p] = "i_select"
  /\ \E ok \in BOOLEAN :
       result' = [result EXCEPT ![p] = IF ok THEN Handle(db) ELSE Thrown]
  /\ pc' = [pc EXCEPT ![p] = "done"]
  /\ UNCHANGED << tables, nextId, clock, op, args, loc, tx, calls, pool >>

initializeDatabase(p) == InitDbCall(p) \/ InitDbConstruct(p) \/ InitDbSelect(p)

\* if (!db) throw new Error('Database not initialized...'); return db
getDatabase(p) ==
  /\ pc[p] \in {"idle", "done"}
  /\ calls < MaxInitCalls
  /\ calls' = calls + 1
  /\ op' = [op EXCEPT ![p] = "getDatabase"]
  /\ pc' = [pc EXCEPT ![p] = "done"]
  /\ result' = [result EXCEPT ![p] = IF db = NoClient THEN Thrown ELSE Handle(db)]
  /\ UNCHANGED << tables, nextId, clock, args, loc, tx, pool >>

NextInitDb ==
  \/ \E p \in Procs : initializeDatabase(p)
  \/ \E p \in Procs : getDatabase(p)

SpecInitDb == InitInitDb /\ [][NextInitDb]_vars

\* ================================================================== claims
\* vocabulary of the claims, stated on the committed tables
Owns(ownerId, id) ==
  id \in DOMAIN organizations /\ organizations[id].ownerId = ownerId
Belongs(deviceId, id, ownerId) ==
  /\ deviceId \in DOMAIN deviceRegistrations
  /\ deviceRegistrations[deviceId].organizationId = id
  /\ deviceRegistrations[deviceId].userId = ownerId
ChildRowsIn(devs, baks, id) ==
  { << "device", d >> : d \in { x \in DOMAIN devs : devs[x].organizationId = id } }
    \cup { << "backup", b >> : b \in { x \in DOMAIN baks : baks[x].organizationId = id } }
ChildRows(id) == ChildRowsIn(deviceRegistrations, recoveryBackups, id)
Moves(p) == pc'[p] # pc[p]
GatePcs == {"g_acc", "v_acc", "j_acc"}
GatedPcs == {"g_sel", "v_upd", "j_ins"}
GatedOps == {"getRegisteredDevices", "revokeDeviceAccess", "projectCreate"}
Returned(p) == pc[p] = "done"
Returns(p) == pc[p] # "done" /\ pc'[p] = "done"

\* C1: when a create call's catch block ran after its organization insert
\* (the device or the backup insert failed), then once the call has returned
\* the organization row it inserted is in no table, and no device or backup
\* row references it.
C1_CreateAtomic ==
  \A p \in Procs :
    (Returned(p) /\ op[p] = "create" /\ loc[p].logged /\ loc[p].org # NoId) =>
      /\ loc[p].org \notin DOMAIN organizations
      /\ ChildRows(loc[p].org) = {}
      /\ loc[p].device # NoId => loc[p].device \notin DOMAIN deviceRegistrations

\* a create whose recovery-backup insert failed after both other inserts ran
C1_Witness ==
  \E p \in Procs :
    /\ Returned(p) /\ op[p] = "create" /\ loc[p].logged
    /\ loc[p].org # NoId /\ loc[p].device # NoId
    /\ ErrCode(result[p]) = "INTERNAL_ERROR"

\* C2: keys(orgId, ownerId) goes on to release the organization's key material
\* exactly when its organization query finds a row with id = orgId and
\* ownerId = ownerId (and the query does not fail); the data it returns carries
\* the three key columns of that row.  For every other input it returns
\* data = null with ORG_NOT_FOUND (INTERNAL_ERROR when the query itself
\* failed): one and the same result whether the id exists under another owner
\* or not at all.
C2_KeysOnlyForOwner ==
  [][ \A p \in Procs : op[p] = "keys" =>
        /\ (pc[p] = "k_org" /\ Moves(p)) =>
             IF Owns(args[p].ownerId, args[p].id)
               THEN \/ /\ pc'[p] = "k_dev"
                       /\ loc'[p].row = Some(
                            [ privateKeyEncrypted |-> organizations[args[p].id].privateKeyEncrypted,
                              keyDerivationSalt |-> organizations[args[p].id].keyDerivationSalt,
                              encryptionIv |-> organizations[args[p].id].encryptionIv ])
                    \/ /\ Returns(p) /\ loc'[p].logged
                       /\ result'[p] = Err("INTERNAL_ERROR")
               ELSE /\ Returns(p)
                    /\ result'[p].data = Null
                    /\ result'[p] = IF loc'[p].logged THEN Err("INTERNAL_ERROR")
                                                      ELSE Err("ORG_NOT_FOUND")
        /\ (pc[p] \in {"k_dev", "k_now", "k_upd"} /\ ~Returns(p)) =>
             loc'[p].row = loc[p].row
        /\ (Returns(p) /\ result'[p].data # Null) =>
             /\ pc[p] \in {"k_dev", "k_upd"}
             /\ loc[p].row # Null
             /\ result'[p].data[1].privateKeyEncrypted = loc[p].row[1].privateKeyEncrypted
             /\ result'[p].data[1].keyDerivationSalt = loc[p].row[1].keyDerivationSalt
             /\ result'[p].data[1].encryptionIv = loc[p].row[1].encryptionIv
    ]_vars

\* one keys call named an organization of another owner, one named no
\* organization at all, and both got the same ORG_NOT_FOUND result
C2_Witness ==
  \E p, q \in Procs :
    /\ p # q
    /\ Returned(p) /\ op[p] = "keys" /\ Returned(q) /\ op[q] = "keys"
    /\ args[p].id \in DOMAIN organizations /\ ~Owns(args[p].ownerId, args[p].id)
    /\ args[q].id \notin DOMAIN organizations
    /\ result[p] = Err("ORG_NOT_FOUND") /\ result[q] = result[p]

\* C3 as stated: a revokeDevice naming a device that is not a row of
\* (org, owner) returns DEVICE_NOT_FOUND with data = null and changes no row,
\* also when owner does not own org (calls whose store queries succeed).
C3_AlwaysDeviceNotFound ==
  [][ \A p \in Procs :
        ( /\ op[p] = "revokeDeviceAccess" /\ Returns(p) /\ ~loc'[p].logged
          /\ ~Belongs(args[p].deviceId, args[p].id, args[p].ownerId) ) =>
            /\ result'[p] = Err("DEVICE_NOT_FOUND")
            /\ UNCHANGED tables
    ]_vars

\* C3 amended: a revokeDevice naming a device that is not a row of
\* (org, owner) changes no row and returns data = null; the error is
\* ORG_NOT_FOUND (404) when the ownership gate denies (owner does not own
\* org, or the gate's query failed) and DEVICE_NOT_FOUND (404) when owner owns
\* org (INTERNAL_ERROR when the update statement failed).
C3_ScopedRevocation ==
  [][ \A p \in Procs :
        ( /\ op[p] = "revokeDeviceAccess" /\ Moves(p) /\ pc[p] \in {"v_acc", "v_upd"}
          /\ ~Belongs(args[p].deviceId, args[p].id, args[p].ownerId) ) =>
            /\ UNCHANGED tables
            /\ pc[p] = "v_acc" =>
                 IF Owns(args[p].ownerId, args[p].id) /\ ~loc'[p].logged
                   THEN pc'[p] = "v_upd"
                   ELSE /\ Returns(p)
                        /\ result'[p] = [kind |-> "envelope", data |-> Null,
                             error |-> Some([code |-> "ORG_NOT_FOUND", message |-> "Organization not found",
                                   statusCode |-> 404])]
            /\ pc[p] = "v_upd" =>
                 /\ Returns(p)
                 /\ result'[p].data = Null
                 /\ result'[p].error = IF loc'[p].logged
                      THEN Some([code |-> "INTERNAL_ERROR", message |-> "Internal server error",
                            statusCode |-> 500])
                      ELSE Some([code |-> "DEVICE_NOT_FOUND", message |-> "Device registration not found",
                            statusCode |-> 404])
    ]_vars

\* the owner of an organization named a device registered to another
\* organization and got DEVICE_NOT_FOUND
C3_Witness ==
  \E p \in Procs :
    /\ Returned(p) /\ op[p] = "revokeDeviceAccess"
    /\ ErrCode(result[p]) = "DEVICE_NOT_FOUND"
    /\ Owns(args[p].ownerId, args[p].id)
    /\ args[p].deviceId \in DOMAIN deviceRegistrations
    /\ deviceRegistrations[args[p].deviceId].organizationId # args[p].id

\* C4: a device registration that has isActive = false has isActive = false
\* after every step that keeps the row, whichever operations interleave.
C4_RevocationTerminal ==
  [][ \A d \in DOMAIN deviceRegistrations \cap DOMAIN deviceRegistrations' :
        ~deviceRegistrations[d].isActive => ~deviceRegistrations'[d].isActive
    ]_vars

\* a device is revoked and a keys call that had selected it while it was
\* active has since written its lastUsed and returned
C4_Witness ==
  \E p \in Procs, d \in DOMAIN deviceRegistrations :
    /\ ~deviceRegistrations[d].isActive
    /\ Returned(p) /\ op[p] = "keys" /\ result[p].data # Null
    /\ result[p].data[1].deviceInfo = Some([id |-> d, isActive |-> TRUE])

\* C5: (1) when a remove by the owner returns without a store failure, the
\* organization row is gone and no device or backup row references it;
\* (2) an organization id that is gone stays gone, and no child row appears
\* for it; (3) a findOne, keys, listDevices or revokeDevice whose first query
\* runs when the organization is gone returns data = null with ORG_NOT_FOUND
\* (INTERNAL_ERROR when that query of findOne or keys itself failed).
C5_CascadingTeardown ==
  [][ /\ \A p \in Procs :
           ( /\ op[p] = "remove" /\ Returns(p)
             /\ result'[p].kind = "envelope" /\ ~loc'[p].logged
             /\ ErrCode(result'[p]) # "ORG_NOT_FOUND" ) =>
               /\ args[p].id \notin DOMAIN organizations'
               /\ ChildRowsIn(deviceRegistrations', recoveryBackups', args[p].id) = {}
      /\ \A id \in 1..(nextId.org - 1) :
           ( /\ id \notin DOMAIN organizations
             /\ \A q \in Procs : id \notin DOMAIN tx[q].insOrgs ) =>
               /\ id \notin DOMAIN organizations'
               /\ ChildRowsIn(deviceRegistrations', recoveryBackups', id) = {}
      /\ \A p \in Procs :
           ( /\ pc[p] \in {"f_sel", "k_org", "g_acc", "v_acc"} /\ Moves(p)
             /\ args[p].id \notin DOMAIN organizations ) =>
               /\ Returns(p)
               /\ result'[p].data = Null
               /\ ErrCode(result'[p]) =
                    IF loc'[p].logged /\ pc[p] \in {"f_sel", "k_org"}
                      THEN "INTERNAL_ERROR" ELSE "ORG_NOT_FOUND"
    ]_vars

\* the owner's remove has returned and the owner's later lookup of the same
\* organization was answered ORG_NOT_FOUND by the store
C5_Witness ==
  \E p, q \in Procs :
    /\ p # q
    /\ Returned(p) /\ op[p] = "remove" /\ result[p].kind = "envelope"
    /\ ~loc[p].logged /\ ErrCode(result[p]) # "ORG_NOT_FOUND"
    /\ Returned(q) /\ op[q] \in {"findOne", "keys", "getRegisteredDevices",
                                 "revokeDeviceAccess"}
    /\ args[q].id = args[p].id /\ args[q].ownerId = args[p].ownerId
    /\ ~loc[q].logged /\ ErrCode(result[q]) = "ORG_NOT_FOUND"
    /\ args[p].id \notin DOMAIN organizations /\ ChildRows(args[p].id) = {}

\* C6 as stated: the step on which remove returns either deletes the
\* organization row with all its device and backup rows or leaves the three
\* tables as they were, and leaves them as they were whenever the returned
\* error is non-null.
C6_RemoveAllOrNothing ==
  [][ \A p \in Procs :
        (op[p] = "remove" /\ Returns(p) /\ result'[p].kind = "envelope") =>
          /\ \/ UNCHANGED tables
             \/ /\ args[p].id \in DOMAIN organizations
                /\ args[p].id \notin DOMAIN organizations'
                /\ ChildRowsIn(deviceRegistrations', recoveryBackups', args[p].id) = {}
          /\ result'[p].error # Null => UNCHANGED tables
    ]_vars

\* C7 as stated: no step moves the lastUsed of a device row backward.
C7_LastUsedMonotonic ==
  [][ \A d \in DOMAIN deviceRegistrations \cap DOMAIN deviceRegistrations' :
        deviceRegistrations'[d].lastUsed >= deviceRegistrations[d].lastUsed
    ]_vars

\* C8: the hasAccess query that gates a call answers true exactly when an
\* organization row with id = organizationId and ownerId = ownerId exists
\* (and false when the query failed), and changes no row.
C8_HasAccessExact ==
  [][ \A p \in Procs :
        (pc[p] \in GatePcs /\ Moves(p)) =>
          /\ UNCHANGED tables
          /\ loc'[p].access => Owns(args[p].ownerId, args[p].id)
          /\ ~loc'[p].access => (~Owns(args[p].ownerId, args[p].id) \/ loc'[p].logged)
          /\ loc'[p].access <=> pc'[p] \in GatedPcs
    ]_vars

\* one gate answered true for the owner while another answered false for a
\* caller naming an organization that exists under a different owner
C8_Witness ==
  \E p, q \in Procs :
    /\ pc[p] \in GatedPcs /\ loc[p].access /\ Owns(args[p].ownerId, args[p].id)
    /\ Returned(q) /\ op[q] \in GatedOps /\ ~loc[q].access /\ ~loc[q].logged
    /\ args[q].id \in DOMAIN organizations /\ ~Owns(args[q].ownerId, args[q].id)

\* C9: a call whose hasAccess query failed never reaches the statement behind
\* the gate: it returns the ORG_NOT_FOUND envelope, and no gated call ends in
\* a thrown exception.
C9_FailClosed ==
  \A p \in Procs :
    /\ pc[p] \in GatedPcs => (loc[p].access /\ ~loc[p].logged)
    /\ (Returned(p) /\ op[p] \in GatedOps) => result[p].kind = "envelope"
    /\ (Returned(p) /\ op[p] \in GatedOps /\ ~loc[p].access) =>
         result[p] = Err("ORG_NOT_FOUND")

\* the owner of an existing organization was denied because the gate's query
\* failed
C9_Witness ==
  \E p \in Procs :
    /\ Returned(p) /\ op[p] \in GatedOps
    /\ loc[p].logged /\ ~loc[p].access
    /\ Owns(args[p].ownerId, args[p].id)
    /\ result[p] = Err("ORG_NOT_FOUND")

\* C10: the step on which a successful create returns makes visible one new
\* organization row whose id is data.id, one new device row whose id is
\* data.deviceRegistrationId with organizationId = data.id and userId = the
\* payload's ownerId, and one new backup row with the same organization id
\* and owner.
C10_CreateReturnsItsRows ==
  [][ \A p \in Procs :
        (op[p] = "create" /\ Returns(p) /\ result'[p].data # Null) =>
          LET d == result'[p].data[1] IN
            /\ DOMAIN organizations' \ DOMAIN organizations = {d.id}
            /\ organizations'[d.id].ownerId = args[p].ownerId
            /\ organizations'[d.id].name = d.name
            /\ DOMAIN deviceRegistrations' \ DOMAIN deviceRegistrations
                 = {d.deviceRegistrationId}
            /\ deviceRegistrations'[d.deviceRegistrationId].organizationId = d.id
            /\ deviceRegistrations'[d.deviceRegistrationId].userId = args[p].ownerId
            /\ deviceRegistrations'[d.deviceRegistrationId].isActive
            /\ \E b \in DOMAIN recoveryBackups' :
                 /\ DOMAIN recoveryBackups' \ DOMAIN recoveryBackups = {b}
                 /\ recoveryBackups'[b].organizationId = d.id
                 /\ recoveryBackups'[b].userId = args[p].ownerId
    ]_vars

\* a create by u2 has returned success and its rows are in the tables
C10_Witness ==
  \E p \in Procs :
    /\ Returned(p) /\ op[p] = "create" /\ result[p].data # Null
    /\ args[p].ownerId = "u2"
    /\ Owns("u2", result[p].data[1].id)
    /\ Belongs(result[p].data[1].deviceRegistrationId, result[p].data[1].id, "u2")

\* C11 as stated: a call of the service's create (the controller let the
\* request through) that has returned has the envelope as its result, either
\* the success envelope or exactly INTERNAL_ERROR (status 500) with
\* data = null; it has INTERNAL_ERROR exactly when one of its steps failed,
\* and then none of the rows it wrote is in a table.
C11_CreateFailureIsInternalError ==
  \A p \in Procs :
    (Returned(p) /\ op[p] = "create" /\ args[p].ownerId = args[p].session) =>
      /\ result[p].kind = "envelope"
      /\ result[p].error # Null =>
           result[p] = [kind |-> "envelope", data |-> Null,
                        error |-> Some([code |-> "INTERNAL_ERROR", message |-> "Internal server error",
                            statusCode |-> 500])]
      /\ loc[p].logged <=> result[p].error # Null
      /\ (loc[p].logged /\ loc[p].org # NoId) =>
           (loc[p].org \notin DOMAIN organizations /\ ChildRows(loc[p].org) = {})

\* C12 as stated: no call of a core operation ends in a thrown exception.
C12_NoExceptionEscapes ==
  \A p \in Procs : Returned(p) => result[p].kind # "thrown"

\* C13: the ownership query of findOne and of update, run when no
\* organization row has the call's (id, ownerId) pair, ends the call with
\* data = null and ORG_NOT_FOUND (INTERNAL_ERROR when the query itself
\* failed) and changes no row: one and the same result whether the id exists
\* under another owner or not at all.
C13_NotFoundForNonOwner ==
  [][ \A p \in Procs :
        ( /\ pc[p] \in {"f_sel", "u_sel"} /\ Moves(p)
          /\ ~Owns(args[p].ownerId, args[p].id) ) =>
            /\ Returns(p)
            /\ UNCHANGED tables
            /\ result'[p].data = Null
            /\ result'[p] = IF loc'[p].logged THEN Err("INTERNAL_ERROR")
                                              ELSE Err("ORG_NOT_FOUND")
    ]_vars

\* an update naming an organization of another owner and a findOne naming no
\* organization at all got the same ORG_NOT_FOUND result
C13_Witness ==
  \E p, q \in Procs :
    /\ Returned(p) /\ op[p] = "update" /\ ~loc[p].logged
    /\ Returned(q) /\ op[q] = "findOne" /\ ~loc[q].logged
    /\ args[p].id \in DOMAIN organizations /\ ~Owns(args[p].ownerId, args[p].id)
    /\ organizations[args[p].id].name # args[p].name
    /\ args[q].id \notin DOMAIN organizations
    /\ result[p] = Err("ORG_NOT_FOUND") /\ result[q] = result[p]

C15_ClampToRange ==
  \A p \in FaProcs :
    op[p] = "findAll" =>
      /\ loc[p].page >= 1 /\ loc[p].limit >= 1 /\ loc[p].limit <= 100
      /\ loc[p].page = (IF args[p].page < 1 THEN 1 ELSE args[p].page)
      /\ loc[p].limit = (IF args[p].limit < 1 THEN 1
                         ELSE IF args[p].limit > 100 THEN 100 ELSE args[p].limit)
      /\ (Returned(p) /\ result[p].data # Null) =>
           /\ result[p].data[1].pagination.page = loc[p].page
           /\ result[p].data[1].pagination.limit = loc[p].limit

\* C15 amended: the page and limit findAll uses and reports satisfy page >= 1
\* and 1 <= limit <= 100; a page below 1 becomes 1, a limit above 100 becomes
\* 100, a limit below 1 becomes the default page size 10, and every other
\* argument is used as given.
C15_ClampWithDefault ==
  \A p \in FaProcs :
    op[p] = "findAll" =>
      /\ loc[p].page >= 1 /\ loc[p].limit >= 1 /\ loc[p].limit <= 100
      /\ loc[p].page = (IF args[p].page < 1 THEN 1 ELSE args[p].page)
      /\ loc[p].limit = (IF args[p].limit < 1 THEN 10
                         ELSE IF args[p].limit > 100 THEN 100 ELSE args[p].limit)
      /\ (Returned(p) /\ result[p].data # Null) =>
           /\ result[p].data[1].pagination.page = loc[p].page
           /\ result[p].data[1].pagination.limit = loc[p].limit

\* a findAll called with page and limit both below 1 has reported page 1 and
\* limit 10
C15_Witness ==
  \E p \in FaProcs :
    /\ Returned(p) /\ op[p] = "findAll" /\ result[p].data # Null
    /\ args[p].page < 1 /\ args[p].limit < 1
    /\ result[p].data[1].pagination.page = 1
    /\ result[p].data[1].pagination.limit = 10

\* C16: the page query of findAll returns rows of the caller only, newest
\* first by createdAt, the at most limit rows that follow the first
\* (page - 1) * limit rows of the caller in such an order; the count query
\* reports total = the number of rows of the caller, pages = ceil(total /
\* limit), hasNext = (page < pages) and hasPrev = (page > 1), with the page
\* the first query returned.
C16_FindAllPage ==
  [][ \A p \in FaProcs :
        /\ (pc[p] = "fa_data" /\ pc'[p] = "fa_count") =>
             LET mine == { i \in DOMAIN organizations :
                             organizations[i].ownerId = args[p].ownerId }
                 n == Cardinality(mine)
                 skip == (loc[p].page - 1) * loc[p].limit
                 data == loc'[p].data
             IN /\ Len(data) <= loc[p].limit
                /\ \E s \in [1..n -> mine] :
                     /\ \A i, j \in 1..n : i # j => s[i] # s[j]
                     /\ \A i, j \in 1..n : i < j =>
                          organizations[s[i]].createdAt >= organizations[s[j]].createdAt
                     /\ Len(data) = IF n - skip < 0 THEN 0
                                    ELSE IF n - skip < loc[p].limit THEN n - skip
                                    ELSE loc[p].limit
                     /\ \A i \in 1..Len(data) :
                          /\ data[i].id = s[skip + i]
                          /\ data[i].name = organizations[s[skip + i]].name
                          /\ data[i].createdAt = organizations[s[skip + i]].createdAt
        /\ (pc[p] = "fa_count" /\ Returns(p) /\ result'[p].data # Null) =>
             LET total == Cardinality({ i \in DOMAIN organizations :
                                          organizations[i].ownerId = args[p].ownerId })
                 pages == CHOOSE k \in 0..total :
                            k * loc[p].limit >= total /\ (k - 1) * loc[p].limit < total
                 d == result'[p].data[1]
             IN /\ result'[p].error = Null
                /\ d.allOrgs = loc[p].data
                /\ d.pagination = [ total |-> total, page |-> loc[p].page,
                                    limit |-> loc[p].limit, pages |-> pages,
                                    hasNext |-> loc[p].page < pages,
                                    hasPrev |-> loc[p].page > 1 ]
    ]_vars

\* the second page of one row of a caller who owns two organizations, while
\* another owner has one: the older of the caller's two rows
C16_Witness ==
  \E p \in FaProcs :
    /\ Returned(p) /\ op[p] = "findAll" /\ result[p].data # Null
    /\ args[p].ownerId = "u1" /\ args[p].page = 2 /\ args[p].limit = 1
    /\ DOMAIN organizations = {1, 2, 3}
    /\ organizations[2].ownerId = "u1" /\ organizations[3].ownerId = "u2"
    /\ organizations[2].createdAt > organizations[1].createdAt
    /\ Len(result[p].data[1].allOrgs) = 1
    /\ result[p].data[1].allOrgs[1].id = 1
    /\ result[p].data[1].pagination =
         [ total |-> 2, page |-> 2, limit |-> 1, pages |-> 2,
           hasNext |-> FALSE, hasPrev |-> TRUE ]

\* C17: listDevices runs its device query only after its hasAccess gate
\* answered true, and a denied call returns ORG_NOT_FOUND with data = null;
\* the query returns every device row with the call's organizationId and
\* userId = ownerId, active or revoked, each once, with lastUsed descending,
\* and no other row.
C17_ListDevices ==
  [][ \A p \in Procs : op[p] = "getRegisteredDevices" =>
        /\ (pc[p] = "g_acc" /\ Moves(p)) =>
             \/ pc'[p] = "g_sel" /\ loc'[p].access
             \/ Returns(p) /\ ~loc'[p].access /\ result'[p] = Err("ORG_NOT_FOUND")
        /\ (Returns(p) /\ result'[p].data # Null) =>
             /\ pc[p] = "g_sel" /\ loc[p].access
             /\ result'[p].error = Null
             /\ LET devices == result'[p].data[1].devices
                    mine == { d \in DOMAIN deviceRegistrations :
                                /\ deviceRegistrations[d].organizationId = args[p].id
                                /\ deviceRegistrations[d].userId = args[p].ownerId }
                IN /\ Len(devices) = Cardinality(mine)
                   /\ { devices[i].id : i \in 1..Len(devices) } = mine
                   /\ \A i \in 1..Len(devices) :
                        /\ devices[i].isActive = deviceRegistrations[devices[i].id].isActive
                        /\ devices[i].lastUsed = deviceRegistrations[devices[i].id].lastUsed
                   /\ \A i, j \in 1..Len(devices) :
                        i < j => devices[i].lastUsed >= devices[j].lastUsed
    ]_vars

\* the owner has listed the devices of an organization and got its revoked
\* device
C17_Witness ==
  \E p \in Procs :
    /\ Returned(p) /\ op[p] = "getRegisteredDevices" /\ result[p].data # Null
    /\ Len(result[p].data[1].devices) = 1
    /\ ~result[p].data[1].devices[1].isActive
    /\ Belongs(result[p].data[1].devices[1].id, args[p].id, args[p].ownerId)

\* C18: the update of revokeDevice(org, device, owner), run on a device row
\* of (org, owner), returns error = null with revoked = true and leaves the
\* row with isActive = false, whether the row was active or already revoked:
\* the second revocation answers exactly as the first.
C18_RevokeIdempotent ==
  [][ \A p \in Procs :
        ( /\ pc[p] = "v_upd" /\ Moves(p) /\ ~loc'[p].logged
          /\ Belongs(args[p].deviceId, args[p].id, args[p].ownerId) ) =>
            /\ Returns(p)
            /\ result'[p] = [ kind |-> "envelope",
                              data |-> Some([deviceId |-> args[p].deviceId,
                                             revoked |-> TRUE]),
                              error |-> Null ]
            /\ args[p].deviceId \in DOMAIN deviceRegistrations'
            /\ ~deviceRegistrations'[args[p].deviceId].isActive
            /\ DOMAIN deviceRegistrations' = DOMAIN deviceRegistrations
            /\ UNCHANGED << organizations, recoveryBackups, projects >>
    ]_vars

\* two revocations of the same device have both returned success
C18_Witness ==
  \E p, q \in Procs :
    /\ p # q
    /\ Returned(p) /\ op[p] = "revokeDeviceAccess"
    /\ Returned(q) /\ op[q] = "revokeDeviceAccess"
    /\ args[p] = args[q]
    /\ result[p].error = Null /\ result[p].data # Null
    /\ result[p].data[1].revoked /\ result[q] = result[p]
    /\ args[p].deviceId \in DOMAIN deviceRegistrations
    /\ ~deviceRegistrations[args[p].deviceId].isActive

\* C19: in every state each organization row has exactly one device row and
\* exactly one recovery-backup row referencing it; device and backup rows
\* appear only on the step on which a successful create returns, which adds
\* exactly one row to each of the three tables.
C19_OneDeviceOneBackup ==
  /\ [] ( \A id \in DOMAIN organizations :
            /\ Cardinality({ d \in DOMAIN deviceRegistrations :
                               deviceRegistrations[d].organizationId = id }) = 1
            /\ Cardinality({ b \in DOMAIN recoveryBackups :
                               recoveryBackups[b].organizationId = id }) = 1 )
  /\ [][ LET newOrgs == DOMAIN organizations' \ DOMAIN organizations
             newDevs == DOMAIN deviceRegistrations' \ DOMAIN deviceRegistrations
             newBaks == DOMAIN recoveryBackups' \ DOMAIN recoveryBackups
         IN (newOrgs # {} \/ newDevs # {} \/ newBaks # {}) =>
              /\ Cardinality(newOrgs) = 1
              /\ Cardinality(newDevs) = 1
              /\ Cardinality(newBaks) = 1
              /\ \E p \in Procs :
                   /\ op[p] = "create" /\ Returns(p)
                   /\ result'[p].error = Null /\ result'[p].data # Null
                   /\ newOrgs = {result'[p].data[1].id}
       ]_vars

\* two organizations exist, the second made by a create that has returned,
\* each with its one device and its one backup
C19_Witness ==
  \E p \in Procs :
    /\ Returned(p) /\ op[p] = "create" /\ result[p].data # Null
    /\ Cardinality(DOMAIN organizations) = 2
    /\ Cardinality(DOMAIN deviceRegistrations) = 2
    /\ Cardinality(DOMAIN recoveryBackups) = 2
    /\ result[p].data[1].id \in DOMAIN organizations

\* C20: in every state, whatever create and remove calls interleave, every
\* device row and every recovery-backup row references an organization row
\* that exists.
C20_NoOrphans ==
  /\ \A d \in DOMAIN deviceRegistrations :
       deviceRegistrations[d].organizationId \in DOMAIN organizations
  /\ \A b \in DOMAIN recoveryBackups :
       recoveryBackups[b].organizationId \in DOMAIN organizations

\* a remove of an organization whose device had been revoked has committed
\* while a create was running: the organization is gone with its rows, and
\* the rows that remain have their organization
C20_Witness ==
  \E p, q \in Procs :
    /\ Returned(p) /\ op[p] = "remove" /\ result[p].kind = "envelope"
    /\ ~loc[p].logged /\ ErrCode(result[p]) # "ORG_NOT_FOUND"
    /\ args[p].id \notin DOMAIN organizations
    /\ op[q] = "create" /\ Returned(q) /\ result[q].data # Null
    /\ DOMAIN organizations = {result[q].data[1].id}
    /\ DOMAIN deviceRegistrations = {result[q].data[1].deviceRegistrationId}
    /\ Cardinality(DOMAIN recoveryBackups) = 1

\* ---------------------------------------------------------------- C21
\* what one step of a keys call does to the tables when, of a device row it
\* writes, only the columns in cols may change: it writes no organization,
\* backup or project row, inserts and deletes no device row, writes no device
\* row but the one it selected, and writes that one only by its update
\* statement
KeysFrame(p, cols) ==
  /\ UNCHANGED << organizations, recoveryBackups, projects >>
  /\ DOMAIN deviceRegistrations' = DOMAIN deviceRegistrations
  /\ \A d \in DOMAIN deviceRegistrations :
       LET old == deviceRegistrations[d]
           new == deviceRegistrations'[d]
       IN /\ \A c \in DOMAIN old \ cols : new[c] = old[c]
          /\ new # old =>
               /\ pc[p] = "k_upd" /\ d = loc[p].device
               /\ \A c \in cols : new[c] = loc[p].now

\* the device a keys call selects is, in the table it is selected from, an
\* active row of (args.id, args.ownerId); the deviceInfo the call returns is
\* that row
KeysDeviceInfo(p) ==
  /\ (pc[p] = "k_dev" /\ pc'[p] = "k_now") =>
       /\ loc'[p].device \in DOMAIN deviceRegistrations
       /\ deviceRegistrations[loc'[p].device].organizationId = args[p].id
       /\ deviceRegistrations[loc'[p].device].userId = args[p].ownerId
       /\ deviceRegistrations[loc'[p].device].isActive
  /\ (pc[p] \in {"k_now", "k_upd"} /\ ~Returns(p)) => loc'[p].device = loc[p].device
  /\ (Returns(p) /\ result'[p].data # Null /\ result'[p].data[1].deviceInfo # Null) =>
       /\ pc[p] = "k_upd"
       /\ result'[p].data[1].deviceInfo[1].id = loc[p].device
       /\ result'[p].data[1].deviceInfo[1].isActive

\* C21 as stated: the deviceInfo keys returns is the row it selected, an
\* active device of (org, owner) when selected; the only write of a keys call
\* sets lastUsed of that row to the time the call read; every other column and
\* every other row is unchanged.
C21_KeysWritesOnlyLastUsed ==
  [][ \A p \in Procs : (op[p] = "keys" /\ Moves(p)) =>
        KeysDeviceInfo(p) /\ KeysFrame(p, {"lastUsed"}) ]_vars

\* C21, amended: the write sets lastUsed and updatedAt of the selected row to
\* the time the call read; every other column and every other row is
\* unchanged.
C21_KeysWritesLastUsedAndUpdatedAt ==
  [][ \A p \in Procs : (op[p] = "keys" /\ Moves(p)) =>
        KeysDeviceInfo(p) /\ KeysFrame(p, {"lastUsed", "updatedAt"}) ]_vars

\* a keys call has returned the seeded device, created at instant 0, as its
\* deviceInfo after writing instant 1 to it
C21_Witness ==
  \E p \in Procs :
    /\ Returned(p) /\ op[p] = "keys" /\ result[p].data # Null
    /\ result[p].data[1].deviceInfo # Null
    /\ result[p].data[1].deviceInfo[1].id = 1
    /\ 1 \in DOMAIN deviceRegistrations
    /\ deviceRegistrations[1].lastUsed = 1
    /\ deviceRegistrations[1].updatedAt = 1

\* ---------------------------------------------------------------- C22
\* what one step of an update call does to the tables when, of an
\* organization row it writes, only the columns in cols may change: it writes
\* no device, backup or project row, inserts and deletes no organization row,
\* and writes no organization row but the one with id = args.id, owned by
\* args.ownerId, by its update statement
UpdateFrame(p, cols) ==
  /\ UNCHANGED << deviceRegistrations, recoveryBackups, projects >>
  /\ DOMAIN organizations' = DOMAIN organizations
  /\ \A i \in DOMAIN organizations :
       LET old == organizations[i]
           new == organizations'[i]
       IN /\ \A c \in DOMAIN old \ cols : new[c] = old[c]
          /\ new # old =>
               /\ pc[p] = "u_upd" /\ i = args[p].id
               /\ old.ownerId = args[p].ownerId
               /\ new.name = args[p].name

\* C22 as stated: update(id, ownerId, name) changes only the name of the
\* organization with that id, and only when ownerId owns it; every other
\* column of the row and every other row is unchanged, so a caller who does
\* not own an organization never changes its name.
C22_UpdateWritesOnlyName ==
  [][ \A p \in Procs : (op[p] = "update" /\ Moves(p)) => UpdateFrame(p, {"name"}) ]_vars

\* C22, amended: update changes the name and updatedAt of the organization
\* with that id, and only when ownerId owns it; ownerId, the key columns and
\* every other row are unchanged.
C22_UpdateWritesNameAndUpdatedAt ==
  [][ \A p \in Procs : (op[p] = "update" /\ Moves(p)) =>
        /\ UpdateFrame(p, {"name", "updatedAt"})
        /\ \A i \in DOMAIN organizations :
             organizations'[i] # organizations[i] =>
               organizations'[i].updatedAt = loc[p].now ]_vars

\* an update by its owner has renamed the seeded organization at instant 1
C22_Witness ==
  \E p \in Procs :
    /\ Returned(p) /\ op[p] = "update" /\ result[p].data # Null
    /\ args[p].id = 1 /\ args[p].name = "zeta"
    /\ 1 \in DOMAIN organizations
    /\ organizations[1].name = "zeta"
    /\ organizations[1].ownerId = args[p].ownerId
    /\ organizations[1].updatedAt = 1
    /\ organizations[1].privateKeyEncrypted = << "pke", 1 >>

\* ---------------------------------------------------------------- C23
\* C23: an update call returns UNKNOWN_ERROR exactly when its ownership check
\* had found the organization (the call reached its update statement), the
\* statement ran without failing and the organization row was no longer in
\* the table; a row leaves the table only by the commit of a remove call for
\* it; and the step that returns UNKNOWN_ERROR modifies no row.
C23_UnknownErrorIffRowGone ==
  [][ /\ \A p \in Procs : op[p] = "update" =>
           /\ (pc[p] = "u_sel" /\ pc'[p] = "u_upd") => Owns(args[p].ownerId, args[p].id)
           /\ Returns(p) =>
                /\ ErrCode(result'[p]) = "UNKNOWN_ERROR" <=>
                     /\ pc[p] = "u_upd"
                     /\ ~loc'[p].logged
                     /\ args[p].id \notin DOMAIN organizations
                /\ ErrCode(result'[p]) = "UNKNOWN_ERROR" => UNCHANGED tables
      /\ \A i \in DOMAIN organizations \ DOMAIN organizations' :
           \E q \in Procs :
             /\ op[q] = "remove" /\ args[q].id = i
             /\ pc[q] = "r_end" /\ Returns(q) ]_vars

\* an update has returned UNKNOWN_ERROR for an organization that a remove
\* call, returned as well, had deleted under it
C23_Witness ==
  \E p, q \in Procs :
    /\ Returned(p) /\ op[p] = "update" /\ ErrCode(result[p]) = "UNKNOWN_ERROR"
    /\ Returned(q) /\ op[q] = "remove" /\ args[q].id = args[p].id
    /\ args[p].ownerId = args[q].ownerId
    /\ args[p].id \notin DOMAIN organizations

\* ---------------------------------------------------------------- C24
\* C24: in getRegisteredDevices and revokeDeviceAccess the statement on
\* device_registrations runs only after the call's hasAccess has answered
\* true; a call whose hasAccess answered false returns ORG_NOT_FOUND with
\* data = null at that step; no step of these calls but the update statement
\* of a granted revokeDeviceAccess changes a device row, and only a granted
\* call returns data.
C24_GateBeforeDevices ==
  [][ \A p \in Procs :
        (op[p] \in {"getRegisteredDevices", "revokeDeviceAccess"} /\ Moves(p)) =>
          /\ pc[p] \in {"g_sel", "v_upd"} => loc[p].access
          /\ pc[p] \in {"g_acc", "v_acc"} =>
               /\ UNCHANGED deviceRegistrations
               /\ IF loc'[p].access
                    THEN pc'[p] = (IF pc[p] = "g_acc" THEN "g_sel" ELSE "v_upd")
                    ELSE /\ Returns(p)
                         /\ result'[p] = Err("ORG_NOT_FOUND")
          /\ deviceRegistrations' # deviceRegistrations =>
               /\ pc[p] = "v_upd" /\ loc[p].access
          /\ (Returns(p) /\ result'[p].data # Null) =>
               /\ pc[p] \in {"g_sel", "v_upd"} /\ loc[p].access ]_vars

\* a granted revokeDeviceAccess has written its device row, and a
\* getRegisteredDevices whose gate answered false has returned ORG_NOT_FOUND
C24_Witness ==
  \E p, q \in Procs :
    /\ Returned(p) /\ op[p] = "revokeDeviceAccess" /\ loc[p].access
    /\ result[p].data # Null
    /\ args[p].deviceId \in DOMAIN deviceRegistrations
    /\ ~deviceRegistrations[args[p].deviceId].isActive
    /\ Returned(q) /\ op[q] = "getRegisteredDevices" /\ ~loc[q].access
    /\ result[q] = Err("ORG_NOT_FOUND")

\* ---------------------------------------------------------------- C25
\* C25 as stated: the pool is created once: at most one postgres client is
\* ever constructed, whatever the interleaving of initializeDatabase calls,
\* and the initializeDatabase calls that return a handle return the same one.
C25_PoolCreatedOnce ==
  /\ Cardinality(clients) <= 1
  /\ \A p, q \in Procs :
       ( /\ Returned(p) /\ op[p] = "initializeDatabase" /\ result[p].kind = "handle"
         /\ Returned(q) /\ op[q] = "initializeDatabase" /\ result[q].kind = "handle" )
         => result[p] = result[q]

\* ---------------------------------------------------------------- C26
\* C26 as stated: the step on which a remove call returns its envelope
\* returns the success envelope {deleted: true, id} with error = null if and
\* only if that step commits the deletion of the organization row.
C26_RemoveSuccessIffDeleted ==
  [][ \A p \in Procs :
        (op[p] = "remove" /\ Returns(p) /\ result'[p].kind = "envelope") =>
          ( result'[p] = Ok([deleted |-> TRUE, id |-> args[p].id])
              <=> /\ args[p].id \in DOMAIN organizations
                  /\ args[p].id \notin DOMAIN organizations' ) ]_vars

\* ---------------------------------------------------------------- C27
\* C27 as stated: no step changes the lastUsed of a device row whose isActive
\* is false.
C27_RevokedLastUsedFrozen ==
  [][ \A d \in DOMAIN deviceRegistrations \cap DOMAIN deviceRegistrations' :
        ~deviceRegistrations[d].isActive =>
          deviceRegistrations'[d].lastUsed = deviceRegistrations[d].lastUsed ]_vars

\* ---------------------------------------------------------------- C28
\* the columns that hold the organization's encrypted key material
KeyMaterial == {"privateKeyEncrypted", "keyDerivationSalt", "encryptionIv"}

\* C28 as stated: the data of an envelope returned by an operation other than
\* keys has none of the organization's key-material columns.
C28_KeyMaterialOnlyFromKeys ==
  \A p \in Procs :
    ( /\ Returned(p) /\ op[p] # "keys"
      /\ result[p].kind = "envelope" /\ result[p].data # Null )
      => DOMAIN result[p].data[1] \cap KeyMaterial = {}

\* ---------------------------------------------------------------- C29
\* C29: a create request is inside organizationService.create, or has rows
\* of its own in a transaction, only when its payload's ownerId is the user
\* of its session; a request for another user has returned FORBIDDEN, one
\* without a session the session error, and neither has called the service
\* (it inserted no row and allocated no id); hence every organization row a
\* create request inserted is owned by the user who sent the request.
C29_CreateOnlyForSelf ==
  \A p \in Procs : op[p] = "create" =>
    /\ pc[p] \in {"c_begin", "c_org", "c_dev", "c_bak", "c_end"} =>
         args[p].ownerId = args[p].session
    /\ \A i \in DOMAIN tx[p].insOrgs :
         tx[p].insOrgs[i].ownerId = args[p].session
    /\ (Returned(p) /\ args[p].ownerId # args[p].session) =>
         /\ result[p] = IF args[p].session = NoUser THEN Err("TOKEN_MISSING")
                                                    ELSE Err("FORBIDDEN")
         /\ loc[p] = NoLoc
    /\ (Returned(p) /\ result[p].data # Null) =>
         /\ args[p].ownerId = args[p].session
         /\ result[p].data[1].id \in DOMAIN organizations =>
              organizations[result[p].data[1].id].ownerId = args[p].session

\* one create request for another user has been answered FORBIDDEN while a
\* create request of a user for themself has committed its organization
C29_Witness ==
  \E p, q \in Procs :
    /\ Returned(p) /\ op[p] = "create" /\ args[p].session \in Users
    /\ args[p].ownerId # args[p].session
    /\ result[p] = Err("FORBIDDEN")
    /\ Returned(q) /\ op[q] = "create" /\ result[q].data # Null
    /\ result[q].data[1].id \in DOMAIN organizations
    /\ organizations[result[q].data[1].id].ownerId = args[q].session

\* ---------------------------------------------------------------- C30
\* C30: every envelope a call has returned has exactly one of data and error
\* non-null (data is null if and only if error is not), and its error, when
\* there is one, is an entry of the error table: a code, a message and a
\* statusCode, those the table has for the code.
C30_EnvelopeShape ==
  \A p \in Procs :
    (Returned(p) /\ result[p].kind = "envelope") =>
      /\ result[p].data = Null <=> result[p].error # Null
      /\ result[p].error # Null =>
           /\ DOMAIN result[p].error[1] = {"code", "message", "statusCode"}
           /\ result[p].error[1].code \in DOMAIN ALL_ERRORS
           /\ result[p].error[1] = ALL_ERRORS[result[p].error[1].code]

\* two calls of the service have returned, one the success envelope and one
\* an error envelope
C30_Witness ==
  \E p, q \in Procs :
    /\ Returned(p) /\ op[p] \in {"findOne", "update", "keys"}
    /\ result[p].kind = "envelope" /\ result[p].data # Null /\ result[p].error = Null
    /\ Returned(q) /\ op[q] \in {"remove", "revokeDeviceAccess"}
    /\ result[q].kind = "envelope" /\ result[q].data = Null
    /\ result[q].error # Null
    /\ result[q].error[1].statusCode \in {404, 500}
====
